---- MODULE Spec2Model ----
(***************************************************************************)
(* gen-obs: tabular laboratory results -> FHIR Observation files plus one  *)
(* collection Bundle with a result-history section (src/main.py).          *)
(*                                                                         *)
(* Text cells are sequences of one-character strings so that strip(),      *)
(* float() and strptime() are computed, not assumed.  A Python float is a  *)
(* record [cls, n]: cls "float" carries n in units of 1/Scale, cls "inf"   *)
(* carries the sign in n, cls "nan" is NaN; a Python int is cls "int".     *)
(* A dict is a function from its keys; a missing key is a missing domain   *)
(* element.                                                                *)
(***************************************************************************)
EXTENDS Integers, Sequences, FiniteSets, TLC

VARIABLES rows, performer_val, subject_ref, pc, index, minted, files,
          bundle_entries, result_history_entries, html_rows, log, bundle,
          server, data, lookup_result

vars == <<rows, performer_val, subject_ref, pc, index, minted, files,
          bundle_entries, result_history_entries, html_rows, log, bundle,
          server, data, lookup_result>>

\* ------------------------------------------------------------------ bounds

\* rows of the table in the whole-run specification
NumRows == 2
\* parameters of a $lookup response in the lookup specification
MaxParams == 3
\* fractional decimal digits a modelled float keeps
FracDigits == 1

Scale == 10 ^ FracDigits

\* ------------------------------------------------------------------ values

\* Python None (dict.get of a missing key, config.get default); like every
\* text of the model it is a sequence, so that it compares with any of them
None == <<"None">>
\* pandas' missing cell (float NaN in a str column)
NaN == <<"NaN">>

notna(x) == x # NaN

\* `pd.notna(x) and x`
Truthy(x) == notna(x) /\ x # <<>>

EmptyDict == [k \in {} |-> None]

Put(d, k, v) == [x \in (DOMAIN d) \cup {k} |-> IF x = k THEN v ELSE d[x]]

\* ------------------------------------------------------------------ text

Whitespace == {" ", "\t"}

Digits == <<"0", "1", "2", "3", "4", "5", "6", "7", "8", "9">>

IsDigit(c) == \E d \in 1..10 : Digits[d] = c

DigitVal(c) == (CHOOSE d \in 1..10 : Digits[d] = c) - 1

AllDigits(s) == \A i \in 1..Len(s) : IsDigit(s[i])

RECURSIVE DigitsVal(_)
DigitsVal(s) ==
    IF s = <<>> THEN 0
    ELSE 10 * DigitsVal(SubSeq(s, 1, Len(s) - 1)) + DigitVal(s[Len(s)])

RECURSIVE lstrip(_)
lstrip(s) ==
    IF s # <<>> /\ s[1] \in Whitespace THEN lstrip(Tail(s)) ELSE s

RECURSIVE rstrip(_)
rstrip(s) ==
    IF s # <<>> /\ s[Len(s)] \in Whitespace
    THEN rstrip(SubSeq(s, 1, Len(s) - 1)) ELSE s

\* str.strip()
strip(s) == rstrip(lstrip(s))

Lower(c) ==
    CASE c = "I" -> "i" [] c = "N" -> "n" [] c = "F" -> "f" [] c = "A" -> "a"
      [] c = "T" -> "t" [] c = "Y" -> "y" [] OTHER -> c

LowerStr(s) == [i \in 1..Len(s) |-> Lower(s[i])]

\* position of the first c in s, 0 when there is none
IndexOf(s, c) ==
    IF \E i \in 1..Len(s) : s[i] = c
    THEN CHOOSE i \in 1..Len(s) : s[i] = c /\ \A j \in 1..(i - 1) : s[j] # c
    ELSE 0

\* ------------------------------------------------------------------ numbers

ValueError == [cls |-> "ValueError", n |-> 0]

PyFloat(n) == [cls |-> "float", n |-> n]

Inf(sign) == [cls |-> "inf", n |-> sign]

NanFloat == [cls |-> "nan", n |-> 0]

PyInt(n) == [cls |-> "int", n |-> n]

\* the unsigned decimal literal  ip [ "." fp ]  with a digit somewhere
DecimalOf(ip, fp) ==
    IF /\ AllDigits(ip)
       /\ AllDigits(fp)
       /\ Len(ip) + Len(fp) > 0
       /\ Len(fp) <= FracDigits
    THEN PyFloat(DigitsVal(ip) * Scale
                 + DigitsVal(fp) * (10 ^ (FracDigits - Len(fp))))
    ELSE ValueError

SplitAtDot(t, dot) ==
    IF dot = 0 THEN DecimalOf(t, <<>>)
    ELSE DecimalOf(SubSeq(t, 1, dot - 1), SubSeq(t, dot + 1, Len(t)))

ParseDecimal(t) == SplitAtDot(t, IndexOf(t, "."))

Signed(sgn, d) == IF d.cls = "float" THEN PyFloat(sgn * d.n) ELSE d

ParseUnsigned(sgn, body, low) ==
    IF low \in {<<"i", "n", "f">>, <<"i", "n", "f", "i", "n", "i", "t", "y">>}
    THEN Inf(sgn)
    ELSE IF low = <<"n", "a", "n">> THEN NanFloat
    ELSE Signed(sgn, ParseDecimal(body))

ParseSigned(sgn, body) == ParseUnsigned(sgn, body, LowerStr(body))

ParseStripped(t) ==
    IF t # <<>> /\ t[1] \in {"+", "-"}
    THEN ParseSigned(IF t[1] = "-" THEN -1 ELSE 1, Tail(t))
    ELSE ParseSigned(1, t)

\* float(str): surrounding whitespace ignored, optional sign, then a decimal
\* literal or one of inf / infinity / nan in any letter case.  Exponents,
\* underscores and more than FracDigits fractional digits are not modelled
\* and no input of the model uses them.
ParseFloat(s) == ParseStripped(strip(s))

\* value_num >= 9: the threshold taken one step too low
AtLeastNine(f) ==
    \/ f.cls = "float" /\ f.n >= 9 * Scale
    \/ f.cls = "inf" /\ f.n > 0

\* value_num > 9 on a float
GreaterThanNine(f) ==
    \/ f.cls = "float" /\ f.n > 9 * Scale
    \/ f.cls = "inf" /\ f.n > 0

\* round(x) of a finite float: nearest integer, a tie going to the even one
HalfEven(q, r) ==
    IF 2 * r < Scale THEN q
    ELSE IF 2 * r > Scale THEN q + 1
    ELSE IF q % 2 = 0 THEN q ELSE q + 1

RoundHalfEven(n) == HalfEven(n \div Scale, n % Scale)

\* ------------------------------------------------------------------ dates

IsLeap(y) == (y % 4 = 0 /\ y % 100 # 0) \/ y % 400 = 0

DaysInMonth(y, m) ==
    IF m = 2 THEN (IF IsLeap(y) THEN 29 ELSE 28)
    ELSE IF m \in {4, 6, 9, 11} THEN 30 ELSE 31

\* n as exactly w decimal digits
Pad(n, w) == [k \in 1..w |-> Digits[((n \div (10 ^ (w - k))) % 10) + 1]]

BadDate == [ok |-> FALSE, y |-> 0, m |-> 0, d |-> 0]

DateOf(y, m, d) ==
    IF m \in 1..12 /\ y >= 1 /\ d >= 1 /\ d <= DaysInMonth(y, m)
    THEN [ok |-> TRUE, y |-> y, m |-> m, d |-> d]
    ELSE BadDate

DateFields(mm, dd, yy) ==
    IF /\ Len(mm) \in 1..2 /\ AllDigits(mm)
       /\ Len(dd) \in 1..2 /\ AllDigits(dd)
       /\ Len(yy) = 4 /\ AllDigits(yy)
    THEN DateOf(DigitsVal(yy), DigitsVal(mm), DigitsVal(dd))
    ELSE BadDate

SplitDayYear(mm, rest, s2) ==
    IF s2 = 0 THEN BadDate
    ELSE DateFields(mm, SubSeq(rest, 1, s2 - 1), SubSeq(rest, s2 + 1, Len(rest)))

SplitMonth(s, s1) ==
    IF s1 = 0 THEN BadDate
    ELSE SplitDayYear(SubSeq(s, 1, s1 - 1), SubSeq(s, s1 + 1, Len(s)),
                      IndexOf(SubSeq(s, s1 + 1, Len(s)), "/"))

\* datetime.strptime(s, '%m/%d/%Y'): one or two digits of month, one or two
\* of day, four of year, nothing else, and the date must exist.  ok = FALSE
\* is the ValueError.  (A day written as a blank and a digit, which strptime
\* also takes, is not modelled and no input of the model uses it.)
strptime(s) == SplitMonth(s, IndexOf(s, "/"))

\* date.isoformat(): YYYY-MM-DD
isoformat(dt) == Pad(dt.y, 4) \o <<"-">> \o Pad(dt.m, 2) \o <<"-">> \o Pad(dt.d, 2)

\* strftime('%d/%m/%Y')
strftime(dt) == Pad(dt.d, 2) \o <<"/">> \o Pad(dt.m, 2) \o <<"/">> \o Pad(dt.y, 4)

\* ------------------------------------------------------------------ logging

\* A log entry: the level, the row index and the fixed text of the message
\* and, for a caught exception e, the str(e) that ends the message (the model
\* keeps the exception's type for it), "" otherwise.
Warning(i, msg, e) == [level |-> "warning", index |-> i, msg |-> msg, exc |-> e]

Error(i, msg, e) == [level |-> "error", index |-> i, msg |-> msg, exc |-> e]

\* ------------------------------------------------------------------ record

LabCategory ==
    <<[coding |-> <<[system |-> "http://terminology.hl7.org/CodeSystem/observation-category",
                     code |-> "laboratory",
                     display |-> "Laboratory"]>>]>>

\* the dict literal that starts a record
ObsBase(row, display, id) ==
    [resourceType |-> "Observation",
     id |-> id,
     status |-> "final",
     category |-> LabCategory,
     code |-> [coding |-> <<[system |-> row.system, code |-> row.code,
                             display |-> display]>>,
               text |-> IF notna(row.text_description)
                        THEN strip(row.text_description) ELSE <<>>],
     subject |-> [reference |-> subject_ref]]

Unknown == <<"u", "n", "k", "n", "o", "w", "n">>

DataAbsentPerformer ==
    [extension |-> <<[url |-> "http://hl7.org/fhir/StructureDefinition/data-absent-reason",
                      valueCode |-> "unknown"]>>]

\* the sentinel treated as a reference like any other string
AddPerformerNoSentinel(obs, performer) ==
    IF performer # None /\ performer # <<>>
    THEN Put(obs, "performer", <<[reference |-> performer]>>)
    ELSE obs

\* if performer_val == "unknown": ... elif performer_val: ...
AddPerformer(obs, performer) ==
    IF performer = Unknown
    THEN Put(obs, "performer", <<DataAbsentPerformer>>)
    ELSE IF performer # None /\ performer # <<>>
    THEN Put(obs, "performer", <<[reference |-> performer]>>)
    ELSE obs

ucum_code(row) ==
    IF notna(row.ucum) /\ strip(row.ucum) # <<>>
    THEN strip(row.ucum)
    ELSE IF notna(row.units) THEN strip(row.units) ELSE <<>>

unit_str(row) == IF notna(row.units) THEN strip(row.units) ELSE <<>>

WithCode(q, code) ==
    IF code # <<>>
    THEN Put(Put(q, "system", "http://unitsofmeasure.org"), "code", code)
    ELSE q

WithUnit(q, unit) == IF unit # <<>> THEN Put(q, "unit", unit) ELSE q

\* {**quantity, **metadata}: the number with the unit keys that apply
Quantity(num, row) ==
    WithUnit(WithCode(Put(EmptyDict, "value", num), ucum_code(row)), unit_str(row))

\* A record under construction: the dict so far, the warnings logged so far
\* and the exception that left the row's try block, "" while there is none.
Building(obs) == [obs |-> obs, log |-> <<>>, exc |-> ""]

Warn(st, i, msg) == [st EXCEPT !.log = Append(@, Warning(i, msg, ""))]

Set(st, k, v) == [st EXCEPT !.obs = Put(@, k, v)]

Raise(st, e) == [st EXCEPT !.exc = e]

SetParsedDate(st, i, dt) ==
    IF dt.ok THEN Set(st, "effectiveDateTime", isoformat(dt))
    ELSE Warn(st, i, "Invalid date format")

SetEffectiveDate(st, row, i) ==
    IF Truthy(row.dateobserved)
    THEN SetParsedDate(st, i, strptime(row.dateobserved))
    ELSE st

abx_map ==
    [c \in {<<"S">>, <<"I">>, <<"R">>} |->
        [code |-> c,
         display |-> CASE c = <<"S">> -> "Susceptible"
                       [] c = <<"I">> -> "Intermediate"
                       [] c = <<"R">> -> "Resistant"]]

\* value_num = int(round(value_num)) when value_num > 9; int(round(inf)) is
\* an OverflowError, reported here as cls "OverflowError"
RoundedValue(f) ==
    IF GreaterThanNine(f)
    THEN IF f.cls = "inf" THEN [cls |-> "OverflowError", n |-> 0]
         ELSE PyInt(RoundHalfEven(f.n))
    ELSE f

Interpretation(c) ==
    [coding |-> <<[system |-> "http://terminology.hl7.org/CodeSystem/v3-ObservationInterpretation",
                   code |-> c.code, display |-> c.display]>>]

\* the text kept beside the interpretation code
SetTextValueBoth(st, val, i) ==
    IF val \in DOMAIN abx_map
    THEN Set(Set(st, "valueCodeableConcept", Interpretation(abx_map[val])),
             "valueString", val)
    ELSE IF val # <<>> THEN Set(st, "valueString", val)
    ELSE Warn(st, i, "Invalid value")

\* the except ValueError branch of the value, val the stripped cell
SetTextValue(st, val, i) ==
    IF val \in DOMAIN abx_map
    THEN Set(st, "valueCodeableConcept", Interpretation(abx_map[val]))
    ELSE IF val # <<>> THEN Set(st, "valueString", val)
    ELSE Warn(st, i, "Invalid value")

SetQuantity(st, row, v) ==
    IF v.cls = "OverflowError" THEN Raise(st, "OverflowError")
    ELSE Set(st, "valueQuantity", Quantity(v, row))

SetParsedValue(st, row, i, f) ==
    IF f.cls = "ValueError" THEN SetTextValue(st, strip(row.value), i)
    ELSE SetQuantity(st, row, RoundedValue(f))

SetValue(st, row, i) ==
    IF st.exc # "" THEN st
    ELSE IF Truthy(row.value)
    THEN SetParsedValue(st, row, i, ParseFloat(row.value))
    ELSE st

SetParsedBound(rr, key, row, i, msg, f) ==
    IF f.cls = "ValueError" THEN Warn(rr, i, msg)
    ELSE Set(rr, key, Quantity(f, row))

\* one bound of the range: ref_range[key] = quantity, or a warning
SetBound(rr, cell, key, row, i, msg) ==
    IF Truthy(cell)
    THEN SetParsedBound(rr, key, row, i, msg, ParseFloat(cell))
    ELSE rr

\* the guard of the reference-range block
HasRangeCell(row) == Truthy(row.LowRefRange) \/ Truthy(row.HighRefRange)

SetText(rr, cell) == IF Truthy(cell) THEN Set(rr, "text", cell) ELSE rr

\* ref_range = {} and what the block puts in it; the warnings go on after
\* those of the record so far
RefRange(st, row, i) ==
    SetText(SetBound(SetBound([obs |-> EmptyDict, log |-> st.log, exc |-> ""],
                              row.LowRefRange, "low", row, i,
                              "Invalid low reference range"),
                     row.HighRefRange, "high", row, i,
                     "Invalid high reference range"),
            row.RRDisplay)

\* obs_dict['referenceRange'] = [ref_range]
AddRange(st, rr) ==
    [st EXCEPT !.obs = Put(@, "referenceRange", <<rr.obs>>), !.log = rr.log]

SetReferenceRange(st, row, i) ==
    IF st.exc # "" THEN st
    ELSE IF HasRangeCell(row) THEN AddRange(st, RefRange(st, row, i))
    ELSE st

\* The body of the per-file try block from the dict literal to the reference
\* range.  A step is skipped once an exception left the block.
BuildObservation(row, i, display, id) ==
    SetReferenceRange(
        SetValue(
            SetEffectiveDate(
                Building(AddPerformer(ObsBase(row, display, id), performer_val)),
                row, i),
            row, i),
        row, i)

\* ------------------------------------------------------------------ record, bundle pass

\* The bundle pass builds its record with statements of its own (lines
\* 260-405).  They are translated here apart from those of the per-file
\* pass; only the library calls (strip, float, round, strptime, isoformat)
\* and the shape of a record under construction are shared.

\* {**a, **b}, and d[k] = v as d | {k: v}
Merge(a, b) ==
    [k \in (DOMAIN a) \cup (DOMAIN b) |-> IF k \in DOMAIN b THEN b[k] ELSE a[k]]

\* obs_dict = {...}
BundleObsDict(row, display, obs_id) ==
    [resourceType |-> "Observation",
     id |-> obs_id,
     status |-> "final",
     category |->
        <<[coding |->
            <<[system |-> "http://terminology.hl7.org/CodeSystem/observation-category",
               code |-> "laboratory",
               display |-> "Laboratory"]>>]>>,
     code |-> [coding |-> <<[system |-> row.system, code |-> row.code,
                             display |-> display]>>,
               text |-> IF row.text_description # NaN
                        THEN strip(row.text_description) ELSE <<>>],
     subject |-> [reference |-> subject_ref]]

\* if performer_val == "unknown": ... elif performer_val: ...
BundlePerformer(obs_dict, performer) ==
    CASE performer = <<"u", "n", "k", "n", "o", "w", "n">> ->
            Merge(obs_dict,
                  [performer |->
                    <<[extension |->
                        <<[url |-> "http://hl7.org/fhir/StructureDefinition/data-absent-reason",
                           valueCode |-> "unknown"]>>]>>])
      [] performer \in {None, <<>>} -> obs_dict
      [] OTHER -> Merge(obs_dict, [performer |-> <<[reference |-> performer]>>])

\* the units column taken before the ucum column
BundleUcumCodeUnitsFirst(row) ==
    IF row.units # NaN /\ strip(row.units) # <<>> THEN strip(row.units)
    ELSE IF row.ucum # NaN THEN strip(row.ucum) ELSE <<>>

BundleUcumCode(row) ==
    IF row.ucum # NaN /\ strip(row.ucum) # <<>> THEN strip(row.ucum)
    ELSE IF row.units # NaN THEN strip(row.units) ELSE <<>>

BundleUnitStr(row) == IF row.units # NaN THEN strip(row.units) ELSE <<>>

\* value_metadata, low_metadata, high_metadata
BundleMetadata(code, unit) ==
    Merge(IF code # <<>>
          THEN [system |-> "http://unitsofmeasure.org", code |-> code]
          ELSE EmptyDict,
          IF unit # <<>> THEN [unit |-> unit] ELSE EmptyDict)

\* {**value_quantity, **value_metadata}
BundleQuantity(num, row) ==
    Merge([value |-> num], BundleMetadata(BundleUcumCode(row), BundleUnitStr(row)))

BundleParsedDate(st, i, date_obj) ==
    IF date_obj.ok
    THEN [st EXCEPT !.obs = Merge(@, [effectiveDateTime |-> isoformat(date_obj)])]
    ELSE [st EXCEPT !.log = Append(@, Warning(i, "Invalid date format", ""))]

BundleEffectiveDate(st, row, i) ==
    IF row.dateobserved # NaN /\ row.dateobserved # <<>>
    THEN BundleParsedDate(st, i, strptime(row.dateobserved))
    ELSE st

\* abx_map[val]['display']
BundleAbxDisplay(val) ==
    CASE val = <<"S">> -> "Susceptible"
      [] val = <<"I">> -> "Intermediate"
      [] val = <<"R">> -> "Resistant"

\* except ValueError: val = row['value'].strip() ...
BundleTextValue(st, val, i) ==
    IF val \in {<<"S">>, <<"I">>, <<"R">>}
    THEN [st EXCEPT !.obs =
            Merge(@, [valueCodeableConcept |->
                [coding |->
                    <<[system |-> "http://terminology.hl7.org/CodeSystem/v3-ObservationInterpretation",
                       code |-> val,
                       display |-> BundleAbxDisplay(val)]>>]])]
    ELSE IF val # <<>>
    THEN [st EXCEPT !.obs = Merge(@, [valueString |-> val])]
    ELSE [st EXCEPT !.log = Append(@, Warning(i, "Invalid value", ""))]

\* if value_num > 9: value_num = int(round(value_num)); the quantity.
\* int(round(inf)) raises OverflowError and leaves the try block of the row.
BundleNumber(st, row, value_num) ==
    IF value_num.cls = "inf" /\ value_num.n > 0
    THEN [st EXCEPT !.exc = "OverflowError"]
    ELSE IF value_num.cls = "float" /\ value_num.n > 9 * Scale
    THEN [st EXCEPT !.obs =
            Merge(@, [valueQuantity |->
                        BundleQuantity(PyInt(RoundHalfEven(value_num.n)), row)])]
    ELSE [st EXCEPT !.obs = Merge(@, [valueQuantity |-> BundleQuantity(value_num, row)])]

BundleParsedValue(st, row, i, f) ==
    IF f.cls = "ValueError" THEN BundleTextValue(st, strip(row.value), i)
    ELSE BundleNumber(st, row, f)

BundleValue(st, row, i) ==
    IF st.exc # "" THEN st
    ELSE IF row.value # NaN /\ row.value # <<>>
    THEN BundleParsedValue(st, row, i, ParseFloat(row.value))
    ELSE st

BundleParsedBound(ref_range, key, row, i, msg, f) ==
    IF f.cls = "ValueError"
    THEN [ref_range EXCEPT !.log = Append(@, Warning(i, msg, ""))]
    ELSE [ref_range EXCEPT !.obs = Merge(@, [k \in {key} |-> BundleQuantity(f, row)])]

BundleBound(ref_range, cell, key, row, i, msg) ==
    IF cell # NaN /\ cell # <<>>
    THEN BundleParsedBound(ref_range, key, row, i, msg, ParseFloat(cell))
    ELSE ref_range

BundleRangeText(ref_range, cell) ==
    IF cell # NaN /\ cell # <<>>
    THEN [ref_range EXCEPT !.obs = Merge(@, [text |-> cell])]
    ELSE ref_range

\* ref_range = {} and what the block puts in it
BundleRefRange(st, row, i) ==
    BundleRangeText(
        BundleBound(
            BundleBound([obs |-> EmptyDict, log |-> st.log, exc |-> ""],
                        row.LowRefRange, "low", row, i,
                        "Invalid low reference range"),
            row.HighRefRange, "high", row, i, "Invalid high reference range"),
        row.RRDisplay)

BundleAddRange(st, ref_range) ==
    [st EXCEPT !.obs = Merge(@, [referenceRange |-> <<ref_range.obs>>]),
               !.log = ref_range.log]

BundleReferenceRange(st, row, i) ==
    IF st.exc # "" THEN st
    ELSE IF \/ row.LowRefRange # NaN /\ row.LowRefRange # <<>>
            \/ row.HighRefRange # NaN /\ row.HighRefRange # <<>>
    THEN BundleAddRange(st, BundleRefRange(st, row, i))
    ELSE st

\* The body of the bundle try block from the dict literal to the reference
\* range.
BuildBundleObservation(row, i, display, obs_id) ==
    BundleReferenceRange(
        BundleValue(
            BundleEffectiveDate(
                [obs |-> BundlePerformer(BundleObsDict(row, display, obs_id),
                                         performer_val),
                 log |-> <<>>, exc |-> ""],
                row, i),
            row, i),
        row, i)

\* ------------------------------------------------------------------ lookup

\* dict.get(k): None for a missing key
Get(d, k) == IF k \in DOMAIN d THEN d[k] ELSE None

Named(d, n) == "name" \in DOMAIN d /\ d.name = n

Parts(param) == IF "part" \in DOMAIN param THEN param.part ELSE <<>>

\* a part with name 'preferred' and a true valueBoolean
IsPreferred(part) ==
    /\ Named(part, "preferred")
    /\ "valueBoolean" \in DOMAIN part
    /\ part.valueBoolean

DisplayParts(param) == SelectSeq(Parts(param), LAMBDA q : Named(q, "display"))

\* what the body of the loop over data['parameter'] does with one
\* parameter: return a value (ret) or go on to the next one
VisitParameter(param) ==
    IF Named(param, "display")
    THEN [ret |-> TRUE, value |-> Get(param, "valueString")]
    ELSE IF /\ Named(param, "property")
            /\ \E k \in 1..Len(Parts(param)) : IsPreferred(Parts(param)[k])
            /\ DisplayParts(param) # <<>>
    THEN [ret |-> TRUE, value |-> Get(DisplayParts(param)[1], "valueString")]
    ELSE [ret |-> FALSE, value |-> None]

\* the loop: the first parameter, in response order, that returns
RECURSIVE ScanParameters(_)
ScanParameters(params) ==
    IF params = <<>> THEN [ret |-> FALSE, value |-> None]
    ELSE IF VisitParameter(Head(params)).ret THEN VisitParameter(Head(params))
    ELSE ScanParameters(Tail(params))

RECURSIVE Flatten(_)
Flatten(ss) == IF ss = <<>> THEN <<>> ELSE Head(ss) \o Flatten(Tail(ss))

\* evaluate(data, "Parameters.parameter.where(name='property')
\*                 .part.where(name='display').valueString")
FhirPathDisplays(params) ==
    LET props == SelectSeq(params, LAMBDA q : Named(q, "property"))
        parts == Flatten([k \in 1..Len(props) |-> DisplayParts(props[k])])
        with  == SelectSeq(parts, LAMBDA q : "valueString" \in DOMAIN q)
    IN  [k \in 1..Len(with) |-> with[k].valueString]

FirstOrNone(found) == IF found # <<>> THEN found[1] ELSE None

ScanOrFallback(scan, params) ==
    IF scan.ret THEN scan.value ELSE FirstOrNone(FhirPathDisplays(params))

ExtractFrom(params) == ScanOrFallback(ScanParameters(params), params)

\* the part of get_concept_display after response.json()
ExtractDisplay(d) ==
    ExtractFrom(IF "parameter" \in DOMAIN d THEN d.parameter ELSE <<>>)

\* What the network does with one request: the body of a reply, or a
\* failure of requests.get / response.json().
NetworkError == [failed |-> TRUE]

Reply(d) == [failed |-> FALSE, data |-> d]

\* get_concept_display(code, system) under the network outcome net.  A
\* missing code or system is a float and the string concatenation that
\* builds the query is a TypeError.
get_concept_display(code, system, net) ==
    IF ~notna(code) \/ ~notna(system) THEN [exc |-> "TypeError", value |-> None]
    ELSE IF net.failed THEN [exc |-> "RequestException", value |-> None]
    ELSE [exc |-> "", value |-> ExtractDisplay(net.data)]

\* ------------------------------------------------------------------ inputs

DisplayParam == [name |-> "display", valueString |-> <<"D">>]

EmptyDisplayParam == [name |-> "display"]

PreferredProperty ==
    [name |-> "property",
     part |-> <<[name |-> "preferred", valueBoolean |-> TRUE],
                [name |-> "display", valueString |-> <<"P">>]>>]

OtherProperty ==
    [name |-> "property",
     part |-> <<[name |-> "preferred", valueBoolean |-> FALSE],
                [name |-> "display", valueString |-> <<"Q">>]>>]

PreferredNoDisplay ==
    [name |-> "property",
     part |-> <<[name |-> "preferred", valueBoolean |-> TRUE]>>]

NameParam == [name |-> "name", valueString |-> <<"L">>]

Params == {DisplayParam, EmptyDisplayParam, PreferredProperty, OtherProperty,
           PreferredNoDisplay, NameParam}

\* the replies of the lookup specification: every parameter list of at most
\* MaxParams parameters, and a body that is no Parameters resource
Responses ==
    {[resourceType |-> "OperationOutcome"]}
    \cup {[resourceType |-> "Parameters", parameter |-> ps] :
            ps \in UNION {[1..n -> Params] : n \in 0..MaxParams}}

\* what a lookup may meet: a failure, a reply with a display, one without
Resolved == Reply([resourceType |-> "Parameters",
                   parameter |-> <<NameParam, DisplayParam>>])

Unresolved == Reply([resourceType |-> "Parameters", parameter |-> <<NameParam>>])

MgDl == <<"m", "g", "/", "d", "L">>

Loinc == <<"l", "o", "i", "n", "c">>

GoodDate == <<"0", "3", "/", "1", "5", "/", "2", "0", "2", "4">>

BaseRow ==
    [code |-> <<"7", "1", "8", "-", "7">>,
     system |-> Loinc,
     text_description |-> <<" ", "H", "b", " ">>,
     value |-> <<"1", "5", ".", "2">>,
     units |-> <<"m", "g">>,
     ucum |-> MgDl,
     LowRefRange |-> <<"3", ".", "5">>,
     HighRefRange |-> <<"1", "2", ".", "5">>,
     RRDisplay |-> NaN,
     dateobserved |-> GoodDate]

Values ==
    {NaN, <<" ", " ">>,
     <<"7", ".", "5">>, <<"9">>, <<"9", ".", "5">>, <<"1", "0", ".", "5">>,
     <<"1", "1", ".", "5">>, <<"1", "5", ".", "2">>, <<"1", "5", ".", "7">>,
     <<"-", "3">>,
     <<"-", "1", "2", ".", "5">>, <<" ", "1", "2", " ">>,
     <<"i", "n", "f">>, <<"-", "i", "n", "f">>, <<"N", "A", "N">>,
     <<"S">>, <<" ", "R", " ">>, <<"s">>, <<"a", "b", "c">>}

Units == {NaN, <<"m", "g">>, <<" ">>}

Ucums == {NaN, MgDl, <<" ">>}

Lows == {NaN, <<"a", "b", "c">>, <<"3", ".", "5">>, <<"1", "2", ".", "5">>,
         <<"i", "n", "f">>}

Highs == {NaN, <<"x">>, <<"1", "2", ".", "5">>}

RRDisplays == {NaN, <<"o", "k">>}

Dates == {NaN, GoodDate,
          <<"1", "3", "/", "4", "0", "/", "2", "0", "2", "4">>,
          <<"2", "/", "2", "9", "/", "2", "0", "2", "3">>,
          <<"2", "/", "2", "9", "/", "2", "0", "2", "4">>}

Texts == {NaN, <<" ", "H", "b", " ">>}

Codes == {NaN, <<"7", "1", "8", "-", "7">>, <<"a", "/", "b">>}

\* the rows of the one-row specification: the cells of one concern vary
\* together, the others keep the base row's
ValueRows ==
    {[BaseRow EXCEPT !.value = v, !.units = u, !.ucum = c] :
        v \in Values, u \in Units, c \in Ucums}

RangeRows ==
    {[BaseRow EXCEPT !.LowRefRange = l, !.HighRefRange = h, !.RRDisplay = d,
                     !.units = u, !.ucum = c] :
        l \in Lows, h \in Highs, d \in RRDisplays,
        u \in {NaN, <<"m", "g">>}, c \in {NaN, MgDl}}

OtherRows ==
    {[BaseRow EXCEPT !.dateobserved = d, !.text_description = t, !.code = c] :
        d \in Dates, t \in Texts, c \in Codes}

BuildRows == ValueRows \cup RangeRows \cup OtherRows

\* the rows of the whole-run specification: two that build and differ in
\* every cell a record or a table row shows, and one whose value is infinite
SampleRows ==
    {BaseRow,
     [BaseRow EXCEPT !.code = <<"a", "/", "b">>, !.value = <<"S">>,
                     !.text_description = <<"A", "b", "x">>,
                     !.dateobserved = <<"1", "3", "/", "4", "0", "/", "2", "0", "2", "4">>],
     [BaseRow EXCEPT !.code = <<"i">>, !.value = <<"i", "n", "f">>]}

\* the rows of the narrative specification: the rows differ in the value and
\* date cells of the table; one has no text description, one has no code
HistoryRows ==
    {BaseRow,
     [BaseRow EXCEPT !.code = <<"a", "/", "b">>, !.value = <<"S">>,
                     !.text_description = <<"A", "b", "x">>,
                     !.dateobserved = <<"1", "3", "/", "4", "0", "/", "2", "0", "2", "4">>],
     [BaseRow EXCEPT !.code = <<"n">>, !.value = <<"7", ".", "5">>,
                     !.text_description = NaN, !.dateobserved = NaN],
     [BaseRow EXCEPT !.code = NaN, !.value = <<"9">>]}

Performers == {None, <<>>, Unknown, <<"P", "r", "/", "1">>}

Subject == <<"P", "a", "t", "/", "1">>

\* ------------------------------------------------------------------ run

\* a generator that returns the identifier it returned last
uuid4Repeated(earlier) == IF earlier = <<>> THEN 1 ELSE earlier[Len(earlier)]

\* str(uuid.uuid4()): an identifier no earlier call returned.  The model
\* takes the bare contract of a version-4 UUID, so what is checked is how
\* the run uses the calls, not the random generator.
uuid4(earlier) == Len(earlier) + 1

\* f'urn:uuid:{obs_id}'
FullUrl(obs_id) == <<"urn:uuid:", obs_id>>

\* str.replace('/', '-').replace('\\', '-')
safe_code(code) ==
    [k \in 1..Len(code) |-> IF code[k] \in {"/", "\\"} THEN "-" ELSE code[k]]

\* f"observation_{safe_code}_{index:03d}.json"
FileName(code, i) ==
    <<"observation_">> \o safe_code(code) \o <<"_">> \o Pad(i, 3) \o <<".json">>

\* str() of a cell in an f-string
Str(x) == IF x = NaN THEN <<"n", "a", "n">> ELSE x

FileError == "Error processing row"

BundleError == "Error processing row for bundle"

HistoryError == "Error creating result history row"

\* an except clause that only continues
OnRowErrorSilent(i, msg, e) == <<>>

\* the except clause of a pass: what it adds to the log for row i
OnRowError(i, msg, e) ==
    IF msg = HistoryError THEN <<Warning(i, msg, e)>> ELSE <<Error(i, msg, e)>>

\* the entry put in front of the list
AppendEntryFirst(entries, obs_id, obs) ==
    <<[fullUrl |-> FullUrl(obs_id), resource |-> obs]>> \o entries

\* bundle_entries.append(bundle_entry)
AppendEntry(entries, obs_id, obs) ==
    Append(entries, [fullUrl |-> FullUrl(obs_id), resource |-> obs])

\* a back-reference to the identifier minted before this one
AppendReferenceStale(refs, obs_id) ==
    Append(refs, [reference |-> FullUrl(obs_id - 1)])

\* result_history_entries.append({'reference': ...})
AppendReference(refs, obs_id) == Append(refs, [reference |-> FullUrl(obs_id)])

\* the per-file try block after the record is built: the file is written,
\* or the exception of the build or of the write is logged
WriteFile(row, id, st, written) ==
    /\ minted' = Append(minted, id)
    /\ IF st.exc = "" /\ written
       THEN /\ files' = Append(files, [name |-> FileName(row.code, index),
                                       index |-> index, obs |-> st.obs])
            /\ log' = log \o st.log
       ELSE /\ log' = log \o st.log
                        \o OnRowError(index, FileError,
                                      IF st.exc # "" THEN st.exc ELSE "OSError")
            /\ UNCHANGED files

\* the per-file try block after the lookup
FileAfterLookup(row, got, id, written) ==
    /\ lookup_result' = got
    /\ IF got.exc # ""
       THEN /\ log' = log \o OnRowError(index, FileError, got.exc)
            /\ UNCHANGED <<minted, files>>
       ELSE WriteFile(row, id, BuildObservation(row, index, got.value, id), written)

\* one iteration of the per-file loop: lookup, build, write the file
FileRow ==
    /\ pc = "files"
    /\ index < Len(rows)
    /\ \E net \in server[pc], written \in BOOLEAN :
        FileAfterLookup(rows[index + 1],
                        get_concept_display(rows[index + 1].code,
                                            rows[index + 1].system, net),
                        uuid4(minted), written)
    /\ index' = index + 1
    /\ UNCHANGED <<rows, performer_val, subject_ref, pc, bundle_entries,
                   result_history_entries, html_rows, bundle, server,
                   data>>

\* between the loops: the lists of the bundle start empty, the table and the
\* configuration are read again
StartBundlePass ==
    /\ pc = "files"
    /\ index = Len(rows)
    /\ pc' = "bundle"
    /\ index' = 0
    /\ bundle_entries' = <<>>
    /\ result_history_entries' = <<>>
    /\ UNCHANGED <<rows, performer_val, subject_ref, minted, files, html_rows,
                   log, bundle, server, data, lookup_result>>

\* the bundle try block after the record is built: the entry and its
\* back-reference are appended, or the exception of the build is logged
AddEntry(obs_id, st) ==
    /\ minted' = Append(minted, obs_id)
    /\ IF st.exc = ""
       THEN /\ bundle_entries' = AppendEntry(bundle_entries, obs_id, st.obs)
            /\ result_history_entries' =
                    AppendReference(result_history_entries, obs_id)
            /\ log' = log \o st.log
       ELSE /\ log' = log \o st.log \o OnRowError(index, BundleError, st.exc)
            /\ UNCHANGED <<bundle_entries, result_history_entries>>

\* the bundle try block after the lookup
BundleAfterLookup(row, got, obs_id) ==
    /\ lookup_result' = got
    /\ IF got.exc # ""
       THEN /\ log' = log \o OnRowError(index, BundleError, got.exc)
            /\ UNCHANGED <<minted, bundle_entries, result_history_entries>>
       ELSE AddEntry(obs_id, BuildBundleObservation(row, index, got.value, obs_id))

\* one iteration of the bundle loop: lookup, build, append the entry and
\* its back-reference
BundleRow ==
    /\ pc = "bundle"
    /\ index < Len(rows)
    /\ \E net \in server[pc] :
        BundleAfterLookup(rows[index + 1],
                          get_concept_display(rows[index + 1].code,
                                              rows[index + 1].system, net),
                          uuid4(minted))
    /\ index' = index + 1
    /\ UNCHANGED <<rows, performer_val, subject_ref, pc, files, html_rows,
                   bundle, server, data>>

StartNarrativePass ==
    /\ pc = "bundle"
    /\ index = Len(rows)
    /\ pc' = "narrative"
    /\ index' = 0
    /\ html_rows' = <<>>
    /\ UNCHANGED <<rows, performer_val, subject_ref, minted, files,
                   bundle_entries, result_history_entries, log, bundle, server,
                   data, lookup_result>>

\* the display, resolved or not
TestNameDisplayOnly(row, display) == display

\* test_name = display if display else row['text_description']
TestName(row, display) ==
    IF display # None /\ display # <<>> THEN display ELSE row.text_description

ValueStr(row) ==
    IF Truthy(row.value)
    THEN IF Truthy(row.units) THEN row.value \o <<" ">> \o row.units
         ELSE IF Truthy(row.ucum) THEN row.value \o <<" ">> \o row.ucum
         ELSE row.value
    ELSE <<>>

FormatDate(cell, dt) == IF dt.ok THEN strftime(dt) ELSE cell

DateStr(row) ==
    IF Truthy(row.dateobserved)
    THEN FormatDate(row.dateobserved, strptime(row.dateobserved))
    ELSE <<>>

\* the three cells of a row of the HTML table
HtmlRow(row, display) ==
    [test_name |-> Str(TestName(row, display)), value_str |-> ValueStr(row),
     date_str |-> DateStr(row)]

\* the narrative try block after the lookup
NarrativeAfterLookup(row, got) ==
    /\ lookup_result' = got
    /\ IF got.exc # ""
       THEN /\ log' = log \o OnRowError(index, HistoryError, got.exc)
            /\ UNCHANGED html_rows
       ELSE /\ html_rows' = Append(html_rows, HtmlRow(row, got.value))
            /\ UNCHANGED log

\* one iteration of the narrative loop
NarrativeRow ==
    /\ pc = "narrative"
    /\ index < Len(rows)
    /\ \E net \in server[pc] :
        NarrativeAfterLookup(rows[index + 1],
                             get_concept_display(rows[index + 1].code,
                                                 rows[index + 1].system, net))
    /\ index' = index + 1
    /\ UNCHANGED <<rows, performer_val, subject_ref, pc, minted, files,
                   bundle_entries, result_history_entries, bundle, server,
                   data>>

result_history_section ==
    [title |-> "Result History",
     code |-> [coding |-> <<[system |-> "http://loinc.org", code |-> "30954-2"]>>],
     text |-> [status |-> "generated", div |-> html_rows],
     entry |-> result_history_entries]

\* if result_history_entries: bundle['section'] = [result_history_section]
AttachSection(b) ==
    IF result_history_entries # <<>>
    THEN Put(b, "section", <<result_history_section>>) ELSE b

\* after the loops: the section, the bundle with its own identifier, the
\* bundle file
AssembleBundle ==
    /\ pc = "narrative"
    /\ index = Len(rows)
    /\ minted' = Append(minted, uuid4(minted))
    /\ bundle' = AttachSection([resourceType |-> "Bundle", id |-> uuid4(minted),
                                type |-> "collection", entry |-> bundle_entries])
    /\ pc' = "done"
    /\ UNCHANGED <<rows, performer_val, subject_ref, index, files,
                   bundle_entries, result_history_entries, html_rows, log,
                   server, data, lookup_result>>

\* the lookup on its own, for the lookup specification
LookupStep ==
    /\ pc = "lookup"
    /\ lookup_result' = get_concept_display(BaseRow.code, BaseRow.system, Reply(data))
    /\ pc' = "looked"
    /\ UNCHANGED <<rows, performer_val, subject_ref, index, minted, files,
                   bundle_entries, result_history_entries, html_rows, log,
                   bundle, server, data>>

NoResult == [exc |-> "", value |-> None]

\* the three loops over the table
Passes == {"files", "bundle", "narrative"}

Fresh ==
    /\ subject_ref = Subject
    /\ index = 0
    /\ minted = <<>>
    /\ files = <<>>
    /\ bundle_entries = <<>>
    /\ result_history_entries = <<>>
    /\ html_rows = <<>>
    /\ log = <<>>
    /\ bundle = EmptyDict
    /\ lookup_result = NoResult

\* a whole run over a table of at most NumRows sample rows, each lookup
\* failing or resolving
Init ==
    /\ rows \in UNION {[1..n -> SampleRows] : n \in 0..NumRows}
    /\ performer_val = Unknown
    /\ server = [p \in Passes |-> {NetworkError, Resolved}]
    /\ pc = "files"
    /\ data = EmptyDict
    /\ Fresh

\* a whole run over a table of one row: any row of BuildRows under one
\* performer, and the rows of OtherRows under every performer; each lookup
\* failing, resolving or returning no display
InitRows ==
    /\ \E in \in (BuildRows \X {<<"P", "r", "/", "1">>}) \cup (OtherRows \X Performers) :
        /\ rows = <<in[1]>>
        /\ performer_val = in[2]
    /\ server = [p \in Passes |-> {NetworkError, Resolved, Unresolved}]
    /\ pc = "files"
    /\ data = EmptyDict
    /\ Fresh

\* a whole run over a table of at most NumRows rows of HistoryRows; the
\* lookups of the first two passes resolve, each lookup of the narrative
\* pass fails, resolves or returns no display
InitHistory ==
    /\ rows \in UNION {[1..n -> HistoryRows] : n \in 0..NumRows}
    /\ performer_val = Unknown
    /\ server = [p \in Passes |->
                    IF p = "narrative" THEN {NetworkError, Resolved, Unresolved}
                    ELSE {Resolved}]
    /\ pc = "files"
    /\ data = EmptyDict
    /\ Fresh

\* one lookup, the reply drawn from Responses
InitLookup ==
    /\ rows = <<>>
    /\ performer_val = None
    /\ server = [p \in Passes |-> {}]
    /\ pc = "lookup"
    /\ data \in Responses
    /\ Fresh

Next ==
    \/ FileRow
    \/ StartBundlePass
    \/ BundleRow
    \/ StartNarrativePass
    \/ NarrativeRow
    \/ AssembleBundle

Spec == Init /\ [][Next]_vars

SpecRows == InitRows /\ [][Next]_vars

SpecHistory == InitHistory /\ [][Next]_vars

SpecLookup == InitLookup /\ [][LookupStep]_vars

\* ------------------------------------------------------------------ claims

\* the records written to per-row files and those placed in the bundle
FileRecords == {files[k].obs : k \in DOMAIN files}

BundleRecords == {bundle_entries[k].resource : k \in DOMAIN bundle_entries}

BuiltRecords == FileRecords \cup BundleRecords

\* the indices of the rows a pass logged as failed
Logged(msg) == {log[k].index : k \in {j \in DOMAIN log : log[j].msg = msg}}

\* the number of rows each pass has gone through
FilesDone == IF pc = "files" THEN index ELSE Len(rows)

BundleDone ==
    IF pc = "bundle" THEN index
    ELSE IF pc \in {"narrative", "done"} THEN Len(rows) ELSE 0

NarrativeDone ==
    IF pc = "narrative" THEN index ELSE IF pc = "done" THEN Len(rows) ELSE 0

\* the first n row indices, in order, without those a pass logged as failed
Survivors(msg, n) ==
    SelectSeq([k \in 1..n |-> k - 1], LAMBDA i : i \notin Logged(msg))

\* rec is what the build makes of row i under rec's own display and id
IsRecordOf(rec, row, i) ==
    rec = BuildObservation(row, i, rec.code.coding[1].display, rec.id).obs

\* a bound cell that float() accepts
BoundParses(cell) == Truthy(cell) /\ ParseFloat(cell).cls # "ValueError"

ValueKeys == {"valueQuantity", "valueCodeableConcept", "valueString"}

\* C1 (as claimed; the code breaks it): in a one-row run, a record of either
\* pass has a referenceRange if and only if LowRefRange or HighRefRange
\* parses as a number.
C1_RangeIffBoundParses ==
    Len(rows) = 1 =>
        \A rec \in BuiltRecords :
            ("referenceRange" \in DOMAIN rec)
                <=> (\/ BoundParses(rows[1].LowRefRange)
                     \/ BoundParses(rows[1].HighRefRange))

\* C2: at every point of and after the bundle pass, the bundle entries are
\* exactly the records of the rows gone through that the pass did not log as
\* failed, one each, in row order.
C2_EntriesAreSurvivingRowsInOrder ==
    LET surv == Survivors(BundleError, BundleDone)
    IN  /\ Len(bundle_entries) = Len(surv)
        /\ \A k \in 1..Len(surv) :
              k <= Len(bundle_entries)
              /\ IsRecordOf(bundle_entries[k].resource, rows[surv[k] + 1], surv[k])

\* C2 witness: a finished run whose first row failed in the bundle pass and
\* whose second row is the only entry.
C2_Witness ==
    /\ pc = "done"
    /\ Len(rows) = 2
    /\ Logged(BundleError) = {0}
    /\ Len(bundle_entries) = 1
    /\ bundle_entries[1].resource.code.coding[1].code = rows[2].code

\* C3 (as claimed; the code breaks it): in a one-row run whose row has code
\* and system, a pass whose lookup returned (and whose file write worked)
\* produces the record, with every fixed field, whatever the other cells hold.
C3_RecordAlwaysBuilt ==
    (Len(rows) = 1 /\ notna(rows[1].code) /\ notna(rows[1].system)) =>
        /\ (/\ FilesDone = 1
            /\ \A k \in DOMAIN log :
                  log[k].msg = FileError
                      => log[k].exc \notin {"RequestException", "OSError"})
               => Len(files) = 1
        /\ (/\ BundleDone = 1
            /\ \A k \in DOMAIN log :
                  log[k].msg = BundleError => log[k].exc # "RequestException")
               => /\ Len(bundle_entries) = 1
                  /\ {"resourceType", "id", "status", "category", "code", "subject"}
                        \subseteq DOMAIN bundle_entries[1].resource

\* C4 (as claimed; refuted): a record of a row with a non-empty value cell
\* has exactly one of the three value keys, a record of a row without one
\* has none.
C4_OneVariantIfNonEmpty ==
    Len(rows) = 1 =>
        \A rec \in BuiltRecords :
            Cardinality(ValueKeys \cap DOMAIN rec)
                = IF Truthy(rows[1].value) THEN 1 ELSE 0

\* C4 (amended): a record of a row whose value cell holds something other
\* than whitespace has exactly one of the three value keys; a record of a row
\* whose value cell is missing, empty or all whitespace has none.
C4_OneVariantIfNotBlank ==
    Len(rows) = 1 =>
        \A rec \in BuiltRecords :
            Cardinality(ValueKeys \cap DOMAIN rec)
                = IF Truthy(rows[1].value) /\ strip(rows[1].value) # <<>>
                  THEN 1 ELSE 0

\* C4 witness: a bundle record of a row whose value is all whitespace, with
\* no value key.
C4_Witness ==
    /\ Len(rows) = 1
    /\ rows[1].value = <<" ", " ">>
    /\ \E rec \in BundleRecords : ValueKeys \cap DOMAIN rec = {}

\* the performer the claim expects for a configured string
ReferencePerformer(p) == <<[reference |-> p]>>

UnknownPerformer ==
    <<[extension |-> <<[url |-> "http://hl7.org/fhir/StructureDefinition/data-absent-reason",
                        valueCode |-> "unknown"]>>]>>

\* C5 (as claimed; refuted): no performer key when the configuration has no
\* performer, the data-absent-reason entry alone for "unknown", and one
\* reference entry for any other string, the empty one included.
C5_PerformerIncludingEmpty ==
    \A rec \in BuiltRecords :
        IF performer_val = None THEN "performer" \notin DOMAIN rec
        ELSE /\ "performer" \in DOMAIN rec
             /\ rec.performer = IF performer_val = Unknown THEN UnknownPerformer
                                ELSE ReferencePerformer(performer_val)

\* C5 (amended): no performer key when the configuration has no performer or
\* an empty one, the data-absent-reason entry alone for "unknown", and one
\* reference entry for any other non-empty string.
C5_PerformerNonEmpty ==
    \A rec \in BuiltRecords :
        IF performer_val = None \/ performer_val = <<>>
        THEN "performer" \notin DOMAIN rec
        ELSE /\ "performer" \in DOMAIN rec
             /\ rec.performer = IF performer_val = Unknown THEN UnknownPerformer
                                ELSE ReferencePerformer(performer_val)

\* C5 witness: a bundle record built under the empty performer string, with
\* no performer key.
C5_Witness ==
    /\ performer_val = <<>>
    /\ \E rec \in BundleRecords : "performer" \notin DOMAIN rec

\* the parameters of the reply of the lookup specification
ReplyParams == IF "parameter" \in DOMAIN data THEN data.parameter ELSE <<>>

\* the positions of the top-level display parameters of the reply
TopDisplays == {k \in DOMAIN ReplyParams : Named(ReplyParams[k], "display")}

\* the positions of the property parameters marked preferred that have a
\* display part
PreferredDisplays ==
    {k \in DOMAIN ReplyParams :
        /\ Named(ReplyParams[k], "property")
        /\ \E j \in DOMAIN Parts(ReplyParams[k]) :
              IsPreferred(Parts(ReplyParams[k])[j])
        /\ DisplayParts(ReplyParams[k]) # <<>>}

Min(S) == CHOOSE x \in S : \A y \in S : x <= y

\* C6 (as claimed; the code breaks it): the lookup returns the value of the
\* top-level display parameter whenever the reply has one, wherever it is;
\* the display of a preferred property only when there is none; the
\* path-query result only when there is neither; None when nothing yields.
C6_TopLevelDisplayFirst ==
    pc = "looked" =>
        /\ lookup_result.exc = ""
        /\ lookup_result.value =
              IF TopDisplays # {}
              THEN Get(ReplyParams[Min(TopDisplays)], "valueString")
              ELSE IF PreferredDisplays # {}
              THEN Get(DisplayParts(ReplyParams[Min(PreferredDisplays)])[1],
                       "valueString")
              ELSE FirstOrNone(FhirPathDisplays(ReplyParams))

\* C7: in each pass every row gone through has its output or a log entry of
\* that pass with its index (the entries and table rows missing are as many
\* as the rows logged), and a run that has not written the bundle can go on.
C7_FailuresIsolatedAndLogged ==
    /\ \A i \in 0..(FilesDone - 1) :
          (\E k \in DOMAIN files : files[k].index = i) \/ i \in Logged(FileError)
    /\ Logged(BundleError) \subseteq 0..(BundleDone - 1)
    /\ BundleDone - Len(bundle_entries) = Cardinality(Logged(BundleError))
    /\ Logged(HistoryError) \subseteq 0..(NarrativeDone - 1)
    /\ NarrativeDone - Len(html_rows) = Cardinality(Logged(HistoryError))
    /\ (pc = "done" /\ "entry" \in DOMAIN bundle) \/ ENABLED Next

\* C7 witness: a finished run whose first row failed in all three passes and
\* whose second row has a file, a bundle entry and a table row.
C7_Witness ==
    /\ pc = "done"
    /\ Len(rows) = 2
    /\ Logged(FileError) = {0}
    /\ Logged(BundleError) = {0}
    /\ Logged(HistoryError) = {0}
    /\ \E k \in DOMAIN files : files[k].index = 1
    /\ Len(bundle.entry) = 1
    /\ Len(html_rows) = 1

\* the stored number is the parsed one when that is at most nine (minus
\* infinity included), and else an int at most one half away from it
RoundedAsClaimed(v, f) ==
    IF (f.cls = "float" /\ f.n <= 9 * Scale) \/ (f.cls = "inf" /\ f.n < 0)
    THEN v = f
    ELSE f.cls = "float"
            => /\ v.cls = "int"
               /\ 2 * (v.n * Scale - f.n) <= Scale
               /\ 2 * (f.n - v.n * Scale) <= Scale

\* C8: in a one-row run, a record of a row whose value parses as a finite
\* number v stores v itself when v <= 9 and the nearest integer, as an int,
\* when v > 9; a bound of the reference range stores the parsed number as it
\* is.
C8_RoundingThreshold ==
    Len(rows) = 1 =>
        \A rec \in BuiltRecords :
            /\ (Truthy(rows[1].value)
                  /\ ParseFloat(rows[1].value).cls \in {"float", "inf"})
                  => /\ "valueQuantity" \in DOMAIN rec
                     /\ RoundedAsClaimed(rec.valueQuantity.value,
                                         ParseFloat(rows[1].value))
            /\ BoundParses(rows[1].LowRefRange)
                  => rec.referenceRange[1].low.value = ParseFloat(rows[1].LowRefRange)
            /\ BoundParses(rows[1].HighRefRange)
                  => rec.referenceRange[1].high.value = ParseFloat(rows[1].HighRefRange)

\* C8 witness: a bundle record of the row with value 15.7, storing the int 16.
C8_Witness ==
    /\ Len(rows) = 1
    /\ rows[1].value = <<"1", "5", ".", "7">>
    /\ \E rec \in BundleRecords : rec.valueQuantity.value = PyInt(16)

\* every identifier a run has put in an output, in the order of the outputs
OutputIds ==
    [k \in DOMAIN files |-> files[k].obs.id]
        \o [k \in DOMAIN bundle_entries |-> bundle_entries[k].resource.id]
        \o (IF "id" \in DOMAIN bundle THEN <<bundle.id>> ELSE <<>>)

\* C9: the identifiers of the per-file records, of the bundle records and of
\* the bundle are pairwise different.
C9_IdentifiersDistinct ==
    \A i, j \in DOMAIN OutputIds : i # j => OutputIds[i] # OutputIds[j]

\* C9 witness: a finished run with two files and two bundle entries.
C9_Witness ==
    /\ pc = "done"
    /\ Len(files) = 2
    /\ Len(bundle.entry) = 2

\* C10: the back-references and the bundle entries go together one to one,
\* the k-th reference being the k-th fullUrl, which is urn:uuid: followed by
\* the id of the k-th resource; the written bundle has the section, with
\* those references as its entry list, exactly when it has an entry.
C10_SectionReferencesEntries ==
    /\ Len(result_history_entries) = Len(bundle_entries)
    /\ \A k \in DOMAIN bundle_entries :
          /\ k \in DOMAIN result_history_entries
          /\ result_history_entries[k].reference = bundle_entries[k].fullUrl
          /\ bundle_entries[k].fullUrl = <<"urn:uuid:", bundle_entries[k].resource.id>>
    /\ pc = "done" =>
          /\ bundle.entry = bundle_entries
          /\ ("section" \in DOMAIN bundle) <=> (Len(bundle.entry) >= 1)
          /\ "section" \in DOMAIN bundle =>
                /\ Len(bundle.section) = 1
                /\ bundle.section[1].entry = result_history_entries

\* C10 witness: a written bundle with two entries and the section.
C10_Witness ==
    /\ pc = "done"
    /\ "section" \in DOMAIN bundle
    /\ Len(bundle.entry) = 2
    /\ Len(bundle.section[1].entry) = 2

\* the value and date cells of a table row are those of the source row
IsTableRowOf(cells, row) ==
    /\ cells.value_str = ValueStr(row)
    /\ cells.date_str = DateStr(row)

\* a display the lookup resolved
Available(display) == display # None /\ display # <<>>

\* the table row appended last is that of the row the narrative pass went
\* through last
LastAppended == NarrativeDone > 0 /\ lookup_result.exc = "" /\ pc # "files" /\ pc # "bundle"

\* C11 (as claimed): the table has one row for each source row the narrative
\* pass has gone through, in row order, and the first cell of the row
\* appended last is the display when the lookup resolved one and the row's
\* text description otherwise.
C11_OneTableRowPerSourceRow ==
    /\ Len(html_rows) = NarrativeDone
    /\ \A k \in 1..NarrativeDone :
            k \in DOMAIN html_rows => IsTableRowOf(html_rows[k], rows[k])
    /\ LastAppended =>
            html_rows[Len(html_rows)].test_name =
                IF Available(lookup_result.value) THEN lookup_result.value
                ELSE rows[NarrativeDone].text_description

\* C11 (amended): the table has one row for each source row the narrative
\* pass has gone through and not logged as failed, in row order; the first
\* cell of the row appended last is the display when the lookup resolved a
\* non-empty one, and otherwise the text description as str() prints it,
\* "nan" for a missing cell.
C11_OneTableRowPerSurvivingRow ==
    LET surv == Survivors(HistoryError, NarrativeDone)
    IN  /\ Len(html_rows) = Len(surv)
        /\ \A k \in 1..Len(surv) : IsTableRowOf(html_rows[k], rows[surv[k] + 1])
        /\ LastAppended =>
                html_rows[Len(html_rows)].test_name =
                    IF Available(lookup_result.value) THEN lookup_result.value
                    ELSE Str(rows[NarrativeDone].text_description)

\* a finished run of two rows: the lookup of the first failed in the
\* narrative pass and the table has the second row alone, under its text
\* description because the lookup resolved no display
C11_Witness ==
    /\ pc = "done"
    /\ Len(rows) = 2
    /\ Logged(HistoryError) = {0}
    /\ Len(html_rows) = 1
    /\ lookup_result = NoResult
    /\ html_rows[1].test_name = rows[2].text_description
    /\ rows[1] # rows[2]

\* the rows of the table in the written bundle
WrittenTable ==
    IF "section" \in DOMAIN bundle THEN bundle.section[1].text.div ELSE <<>>

\* the back-references of the section in the written bundle
WrittenReferences ==
    IF "section" \in DOMAIN bundle THEN bundle.section[1].entry ELSE <<>>

\* row i has a row in the table of the written bundle
HasTableRow(i) == "section" \in DOMAIN bundle /\ i \notin Logged(HistoryError)

\* row i has an entry in the written bundle
HasEntry(i) == i \notin Logged(BundleError)

\* C12 (as claimed; the code breaks it): in the written bundle the table
\* rows, the entries and the back-references are those of the same source
\* rows: a source row has a row in the table if and only if it has an entry.
C12_TableRowIffEntry ==
    pc = "done" =>
        /\ Len(WrittenTable) = Len(bundle.entry)
        /\ Len(WrittenReferences) = Len(bundle.entry)
        /\ \A i \in 0..(Len(rows) - 1) : HasTableRow(i) <=> HasEntry(i)

\* the display a record carries
DisplayOf(rec) == rec.code.coding[1].display

\* a record with its id left out of the comparison
WithoutId(rec) == [rec EXCEPT !.id = 0]

\* a pass built the record of the row: the per-file pass wrote the file or
\* failed only in writing it; the bundle pass appended the entry
FileBuilt ==
    \/ files # <<>>
    \/ \E k \in DOMAIN log : log[k].msg = FileError /\ log[k].exc = "OSError"

BundleBuilt == bundle_entries # <<>>

\* the lookup returned in every pass gone through
LookupsReturned == \A k \in DOMAIN log : log[k].exc # "RequestException"

\* C13: in a one-row run, when the file record and the bundle record carry
\* the same display they are equal in every field except id; and once the
\* bundle pass has gone through the row with the lookup returning in both
\* passes, the per-file pass built a record (written or not) if and only if
\* the bundle pass did.
C13_PassesBuildTheSameRecord ==
    Len(rows) = 1 =>
        /\ \A k \in DOMAIN files : \A j \in DOMAIN bundle_entries :
                DisplayOf(files[k].obs) = DisplayOf(bundle_entries[j].resource)
                    => WithoutId(files[k].obs) = WithoutId(bundle_entries[j].resource)
        /\ (BundleDone = 1 /\ LookupsReturned) => (FileBuilt <=> BundleBuilt)

\* a finished one-row run: both passes built the record under the same
\* display, with a rounded value, a reference range and different ids
C13_Witness ==
    /\ pc = "done"
    /\ Len(files) = 1
    /\ Len(bundle_entries) = 1
    /\ DisplayOf(files[1].obs) = DisplayOf(bundle_entries[1].resource)
    /\ files[1].obs.id # bundle_entries[1].resource.id
    /\ WithoutId(files[1].obs) = WithoutId(bundle_entries[1].resource)
    /\ "valueQuantity" \in DOMAIN files[1].obs
    /\ files[1].obs.valueQuantity.value.cls = "int"
    /\ "referenceRange" \in DOMAIN files[1].obs
    /\ "performer" \in DOMAIN files[1].obs

====
